---- MODULE Spec2Model ----
(***************************************************************************)
(* Checklist (src/components/input/Checklist.js): a stateless React        *)
(* component.  The host owns the props; the component renders one row per  *)
(* option and each row's onChange handler reports a replacement selection  *)
(* through setProps.  Arrays are modelled as heap objects (a reference     *)
(* into heap), so that building a new array and changing one in place are  *)
(* different things.  Cosmetic props (styles, class names, inline, switch, *)
(* loading_state) do not influence any modelled field and are left out.    *)
(***************************************************************************)
EXTENDS Integers, Sequences, FiniteSets, TLC

VARIABLES
    heap,    \* array objects: reference -> contents
    store,   \* the host's current props for the component
    props,   \* this.props, as of the last construction / render
    mounted, \* whether render() has run since construction
    items,   \* rows returned by the last render(); each holds its closure
    hist     \* the last two handler runs, oldest first (observation only)

vars == <<heap, store, props, mounted, items, hist>>

\* ---------------------------------------------------------------- bounds
MaxLen == 2       \* longest selection the host starts with

OptionValues == {1, 2}   \* the values options are drawn from
Values == {1, 2, 3}      \* the values selections are drawn from
LabelOf(v) == <<"A", "B">>[v]

\* ------------------------------------------------------------- JS values
Undefined == [t |-> "undefined"]
Bool(b)   == [t |-> "boolean", b |-> b]
Str(s)    == [t |-> "string", s |-> s]
Arr(a)    == [t |-> "array", a |-> a]

\* JS truthiness, as used by `id && custom`, `id || ...` and Boolean(x)
Truthy(v) ==
    CASE v.t = "undefined" -> FALSE
      [] v.t = "boolean"   -> v.b
      [] v.t = "string"    -> v.s # ""

\* variant: `option.disabled !== undefined` in place of Boolean(...)
BooleanDefined(v) == v.t # "undefined"

Boolean(v) == Truthy(v)

\* a value inside a template string
TemplateString(v) == IF v.t = "undefined" THEN "undefined" ELSE v.s

SeqsUpTo(S, n) == UNION {[1..k -> S] : k \in 0..n}

\* ------------------------------------------------------------ the heap
NewRef(h) == CHOOSE r \in 1..(Cardinality(DOMAIN h) + 1) : r \notin DOMAIN h

\* arrays no longer referenced by the host or the component are gone
Collect(h, roots) == [r \in (DOMAIN h) \cap roots |-> h[r]]

\* --------------------------------------------------------------- ramda
\* variant: `indexOf(a) > 0`, which overlooks the first element
containsNotFirst(a, r, h) == \E i \in DOMAIN h[r] : i > 1 /\ h[r][i] = a

\* R.contains(a, list): some element equals a
contains(a, r, h) == \E i \in DOMAIN h[r] : h[r][i] = a

\* variant: el is put in front (R.prepend)
appendFront(el, r, h) ==
    LET n == NewRef(h)
    IN  [heap |-> (n :> (<<el>> \o h[r])) @@ h, ref |-> n]

\* variant: list.push(el), which changes the array it is given
appendInPlace(el, r, h) ==
    [heap |-> [h EXCEPT ![r] = Append(@, el)], ref |-> r]

\* R.append(el, list): a NEW array, list followed by el
append(el, r, h) ==
    LET n == NewRef(h)
    IN  [heap |-> (n :> Append(h[r], el)) @@ h, ref |-> n]

\* variant: filter where reject was meant (keeps what it should drop)
withoutInverted(xs, r, h) ==
    LET n    == NewRef(h)
        drop(e) == \E j \in DOMAIN xs : xs[j] = e
    IN  [heap |-> (n :> SelectSeq(h[r], drop)) @@ h, ref |-> n]

\* variant: only the first matching element is removed (indexOf + splice)
withoutFirst(xs, r, h) ==
    LET n    == NewRef(h)
        hit  == {i \in DOMAIN h[r] : \E j \in DOMAIN xs : xs[j] = h[r][i]}
        k    == IF hit = {} THEN 0 ELSE CHOOSE i \in hit : \A j \in hit : i <= j
        rest == [i \in 1..(Len(h[r]) - (IF k = 0 THEN 0 ELSE 1)) |->
                    IF k = 0 \/ i < k THEN h[r][i] ELSE h[r][i + 1]]
    IN  [heap |-> (n :> rest) @@ h, ref |-> n]

\* R.without(xs, list): a NEW array, list without every element found in xs
without(xs, r, h) ==
    LET n    == NewRef(h)
        keep(e) == \A j \in DOMAIN xs : xs[j] # e
    IN  [heap |-> (n :> SelectSeq(h[r], keep)) @@ h, ref |-> n]

\* ------------------------------------------------------------ listItem
\* variant: `id || custom`
CustomModeEither(id, custom) == Truthy(id) \/ Truthy(custom)

\* `if (id && custom)`
CustomMode(id, custom) == Truthy(id) /\ Truthy(custom)

\* `_${id}-${option.value}` / `_${id || "_dbcprivate_checklist"}-${option.value}`
InputId(id, custom, option) ==
    IF CustomMode(id, custom)
    THEN <<"_", TemplateString(id), "-", option.value>>
    ELSE <<"_", IF Truthy(id) THEN TemplateString(id) ELSE "_dbcprivate_checklist",
           "-", option.value>>

\* variant: every handler closes over the last option of the list (a loop
\* variable shared by the closures)
listItemLast(option, p, h) ==
    LET checked == contains(option.value, p.value, h)
    IN  [ mode     |-> IF CustomMode(p.id, p.custom) THEN "custom" ELSE "native",
          id       |-> InputId(p.id, p.custom, option),
          checked  |-> checked,
          disabled |-> Boolean(option.disabled),
          label    |-> option.label,
          key      |-> option.value,
          onChange |-> [option |-> p.options[Len(p.options)], value |-> p.value] ]

listItem(option, p, h) ==
    LET checked == contains(option.value, p.value, h)
    IN  [ mode     |-> IF CustomMode(p.id, p.custom) THEN "custom" ELSE "native",
          id       |-> InputId(p.id, p.custom, option),
          checked  |-> checked,
          disabled |-> Boolean(option.disabled),
          label    |-> option.label,
          key      |-> option.value,
          \* the closure: what the arrow function captured
          onChange |-> [option |-> option, value |-> p.value] ]

\* variant: disabled options are filtered out before mapping
renderEnabled(p, h) ==
    LET on(o) == ~Boolean(o.disabled)
        opts  == SelectSeq(p.options, on)
    IN  [i \in DOMAIN opts |-> listItem(opts[i], p, h)]

\* render(): options.map(option => this.listItem(option))
render(p, h) == [i \in DOMAIN p.options |-> listItem(p.options[i], p, h)]

\* variant: the two branches swapped
onChangeInverted(c, h) ==
    LET r == IF contains(c.option.value, c.value, h)
             THEN append(c.option.value, c.value, h)
             ELSE without(<<c.option.value>>, c.value, h)
    IN  [heap |-> r.heap, calls |-> << [value |-> r.ref] >>]

\* the onChange arrow function: the heap after it and its setProps argument
onChange(c, h) ==
    LET r == IF contains(c.option.value, c.value, h)
             THEN without(<<c.option.value>>, c.value, h)
             ELSE append(c.option.value, c.value, h)
    IN  [heap |-> r.heap, calls |-> << [value |-> r.ref] >>]

\* the host's setProps: the given keys replace the stored ones
setProps(s, payload) ==
    [k \in DOMAIN s |-> IF k \in DOMAIN payload THEN payload[k] ELSE s[k]]

\* Checklist.defaultProps, applied by React to props that are undefined
defaultProps(a) ==
    [ id      |-> a.id,
      options |-> IF a.options.t = "undefined" THEN << >> ELSE a.options.a,
      value   |-> IF a.value.t = "undefined" THEN << >> ELSE a.value.a,
      custom  |-> IF a.custom.t = "undefined" THEN Bool(TRUE) ELSE a.custom ]

\* ------------------------------------------------------------- events
\* one run of a handler, as observed from outside:
\*   row      the row whose control was activated
\*   old      contents of the selection the handler captured, as it started
\*   kept     contents of that same array as the handler returned
\*   refs     the arrays that existed as it started
\*   stale    the host had already replaced the selection it captured
\*   calls    the arguments of its setProps calls, in order
\*   reported contents of the array handed to setProps
ChangeEvent(i, c, h, s, r) ==
    [ row      |-> i,
      old      |-> h[c.value],
      kept     |-> r.heap[c.value],
      refs     |-> DOMAIN h,
      stale    |-> c.value # s.value,
      calls    |-> r.calls,
      reported |-> r.heap[r.calls[1].value] ]

Remember(h, e) == IF h = << >> THEN <<e>> ELSE <<h[Len(h)], e>>

\* ------------------------------------------------------- the machine
OptionRecs == {[label |-> LabelOf(v), value |-> v, disabled |-> d] :
                  v \in OptionValues, d \in {Undefined, Bool(TRUE), Bool(FALSE)}}

\* option values are unique within a list (each is its row's React key)
OptionLists == {o \in SeqsUpTo(OptionRecs, Cardinality(OptionValues)) :
                  \A i, j \in DOMAIN o : i # j => o[i].value # o[j].value}

Args == [ id      : {Undefined, Str(""), Str("cl")},
          options : {Undefined} \cup {Arr(o) : o \in OptionLists},
          value   : {Undefined} \cup {Arr(v) : v \in SeqsUpTo(Values, MaxLen)},
          custom  : {Undefined, Bool(TRUE), Bool(FALSE)} ]

\* constructor(props): the host's props with the defaults filled in; the
\* selection is one array object, shared by the host and the component
Init ==
    \E a \in Args :
        LET d == defaultProps(a)
            p == [d EXCEPT !.value = 1]
        IN  /\ heap  = (1 :> d.value)
            /\ store = p
            /\ props = p
            /\ mounted = FALSE
            /\ items = << >>
            /\ hist  = << >>

\* the host (re-)renders the component with its current props
Render ==
    /\ props' = store
    /\ mounted' = TRUE
    /\ items' = render(store, heap)
    /\ heap'  = Collect(heap, {store.value})
    /\ UNCHANGED <<store, hist>>

\* the user activates the control of row i: the browser runs its onChange
Activate(i) ==
    /\ i \in DOMAIN items
    /\ ~items[i].disabled
    /\ LET c == items[i].onChange
           r == onChange(c, heap)
           s == setProps(store, r.calls[1])
       IN  /\ store' = s
           /\ heap'  = Collect(r.heap, {s.value, props.value})
           /\ hist'  = Remember(hist, ChangeEvent(i, c, heap, store, r))
    /\ UNCHANGED <<props, mounted, items>>

Next == Render \/ \E i \in 1..Cardinality(OptionValues) : Activate(i)

Spec == Init /\ [][Next]_vars

\* the selection is duplicate free and holds option values only
WellFormed(sel, opts) ==
    /\ \A i, j \in DOMAIN sel : i # j => sel[i] # sel[j]
    /\ \A i \in DOMAIN sel : \E k \in DOMAIN opts : opts[k].value = sel[i]

InitUnique == Init /\ WellFormed(heap[store.value], store.options)

SpecUnique == InitUnique /\ [][Next]_vars

\* ------------------------------------------------------------ properties
Member(x, s) == \E i \in DOMAIN s : s[i] = x
Set(s)       == {s[i] : i \in DOMAIN s}
Count(x, s)  == Cardinality({i \in DOMAIN s : s[i] = x})
RemoveAt(s, k) == [i \in 1..(Len(s) - 1) |-> IF i < k THEN s[i] ELSE s[i + 1]]
Others(s, x) == LET keep(e) == e # x IN SelectSeq(s, keep)

OptVal(e) == store.options[e.row].value   \* the value of the activated option
Final     == heap[store.value]            \* the selection the host holds
Last      == hist[Len(hist)]

\* C1: activating the control of an option whose value is not in the
\* selection reports, in one setProps call, the old selection followed by
\* that value: one element longer, the old selection an unchanged prefix,
\* and the host then holds that selection.
C1_AppendWhenUnchecked ==
    /\ \A k \in DOMAIN hist :
          LET e == hist[k]
              x == OptVal(e)
          IN  ~Member(x, e.old) =>
                /\ Len(e.calls) = 1
                /\ Len(e.reported) = Len(e.old) + 1
                /\ SubSeq(e.reported, 1, Len(e.old)) = e.old
                /\ e.reported[Len(e.reported)] = x
                /\ Count(x, e.reported) = 1
    /\ hist # << >> => Final = Last.reported

C1_Witness ==
    /\ hist # << >>
    /\ ~Member(OptVal(Last), Last.old)
    /\ Len(Last.old) >= 2
    /\ items[Last.row].mode = "custom"

\* C2 as stated: activating the control of an option whose value is in the
\* selection reports the old selection with ONE occurrence of the value
\* removed.
C2_RemovesOneOccurrence ==
    \A k \in DOMAIN hist :
        LET e == hist[k]
            x == OptVal(e)
        IN  Member(x, e.old) =>
              \E n \in DOMAIN e.old : e.old[n] = x /\ e.reported = RemoveAt(e.old, n)

\* C2 amended: activating the control of an option whose value is in the
\* selection reports the old selection with EVERY occurrence of the value
\* removed; the other elements are kept, in their order.
C2_RemovesEveryOccurrence ==
    /\ \A k \in DOMAIN hist :
          LET e == hist[k]
              x == OptVal(e)
          IN  Member(x, e.old) =>
                /\ Len(e.calls) = 1
                /\ e.reported = Others(e.old, x)
                /\ ~Member(x, e.reported)
                /\ Len(e.reported) = Len(e.old) - Count(x, e.old)
    /\ hist # << >> => Final = Last.reported

C2_Witness ==
    /\ hist # << >>
    /\ Count(OptVal(Last), Last.old) >= 2
    /\ Last.reported # << >>
    /\ items[Last.row].mode = "native"

\* C3: in every render each row is checked exactly when its option's value
\* occurs in the selection the component was rendered with, in both modes,
\* also when the selection holds values of no option.
C3_CheckedIffMember ==
    mounted =>
        \A i \in DOMAIN items :
            items[i].checked <=> Member(props.options[i].value, heap[props.value])

C3_Witness ==
    /\ mounted
    /\ \E i \in DOMAIN items : items[i].checked /\ items[i].mode = "native"
    /\ \E i \in DOMAIN items : ~items[i].checked
    /\ \E n \in DOMAIN heap[props.value] :
          \A i \in DOMAIN props.options :
              props.options[i].value # heap[props.value][n]

\* C4: a handler leaves the array it captured (the selection the component
\* was rendered with) as it found it, and its only effect is one setProps
\* call whose argument has the single key `value`, bound to an array that
\* did not exist before; the host's other props stay as they were.
C4_NoInPlaceMutation ==
    /\ \A k \in DOMAIN hist :
          LET e == hist[k]
          IN  /\ e.kept = e.old
              /\ Len(e.calls) = 1
              /\ DOMAIN e.calls[1] = {"value"}
              /\ e.calls[1].value \notin e.refs
    /\ hist # << >> => store.value = Last.calls[1].value
    /\ store.options = props.options
    /\ store.id = props.id
    /\ store.custom = props.custom

C4_Witness ==
    /\ hist # << >>
    /\ Last.old # << >>
    /\ Len(Last.reported) > Len(Last.old)
    /\ props.value # store.value
    /\ heap[props.value] = Last.old

\* C5: every row is rendered in exactly one of the two modes, and in the
\* custom mode exactly when the id is a non-empty string and custom is true.
C5_ModeSelection ==
    mounted =>
        \A i \in DOMAIN items :
            /\ items[i].mode \in {"custom", "native"}
            /\ items[i].mode = "custom" <=>
                  /\ props.id.t = "string"
                  /\ props.id.s # ""
                  /\ props.custom = Bool(TRUE)

C5_Witness ==
    /\ mounted
    /\ items # << >>
    /\ props.id = Undefined
    /\ props.custom = Bool(TRUE)
    /\ \A i \in DOMAIN items : items[i].mode = "native"

\* C6: a row's control is disabled, and the user cannot activate it, exactly
\* when its option declares disabled: true (absent counts as false),
\* whether the row is checked or not.
C6_DisabledIffDeclared ==
    mounted =>
        \A i \in DOMAIN items :
            LET declared == props.options[i].disabled.t = "boolean"
                            /\ props.options[i].disabled.b
            IN  /\ items[i].disabled <=> declared
                /\ (ENABLED Activate(i)) <=> ~declared

C6_Witness ==
    /\ mounted
    /\ \E i \in DOMAIN items : items[i].disabled /\ items[i].checked
    /\ \E i \in DOMAIN items :
          /\ ~items[i].disabled
          /\ props.options[i].disabled = Undefined

\* C7: a render returns one row per option, in the order of the option
\* list: as many rows as options, the i-th row built from the i-th option.
C7_OneRowPerOption ==
    mounted =>
        /\ Len(items) = Len(props.options)
        /\ \A i \in DOMAIN items :
              /\ items[i].key = props.options[i].value
              /\ items[i].label = props.options[i].label
              /\ items[i].onChange.option = props.options[i]

C7_Witness ==
    /\ mounted
    /\ Len(items) = 2
    /\ \E i \in DOMAIN items : Boolean(props.options[i].disabled)
    /\ heap[props.value] # << >>

\* C8 as stated: after the controls of two distinct options were activated
\* one after the other, the selection the host holds reflects both toggles
\* (each value's membership is the opposite of what it was in the selection
\* the first handler started from), in every interleaving with renders.
C8_NoToggleLost ==
    (Len(hist) = 2 /\ hist[1].row # hist[2].row) =>
        LET a == OptVal(hist[1])
            b == OptVal(hist[2])
        IN  /\ Member(a, Final) <=> ~Member(a, hist[1].old)
            /\ Member(b, Final) <=> ~Member(b, hist[1].old)

\* C8 amended: the same, provided the component was re-rendered with the
\* selection reported by the first handler before the second one ran.
C8_NoToggleLostWhenRerendered ==
    (Len(hist) = 2 /\ hist[1].row # hist[2].row /\ ~hist[2].stale) =>
        LET a == OptVal(hist[1])
            b == OptVal(hist[2])
        IN  /\ Member(a, Final) <=> ~Member(a, hist[1].old)
            /\ Member(b, Final) <=> ~Member(b, hist[1].old)

C8_Witness ==
    /\ Len(hist) = 2
    /\ hist[1].row # hist[2].row
    /\ ~hist[2].stale
    /\ hist[1].old # << >>
    /\ Member(OptVal(hist[1]), hist[1].old)
    /\ ~Member(OptVal(hist[2]), hist[1].old)

\* C9: activating the same option's control twice, the component re-rendered
\* with the first report in between, leaves the host with the same set of
\* checked values as before the first activation, and with the identical
\* sequence when the option was unchecked to begin with.
C9_ToggleTwice ==
    (Len(hist) = 2 /\ hist[1].row = hist[2].row /\ ~hist[2].stale) =>
        /\ Set(Final) = Set(hist[1].old)
        /\ ~Member(OptVal(hist[1]), hist[1].old) => Final = hist[1].old

C9_Witness ==
    /\ Len(hist) = 2
    /\ hist[1].row = hist[2].row
    /\ ~hist[2].stale
    /\ ~Member(OptVal(hist[1]), hist[1].old)
    /\ Len(hist[1].old) >= 2
    /\ Final = hist[1].old

\* C10: started from a selection without repeated values that holds option
\* values only, the selection the host holds stays that way, whatever
\* controls are activated and however often.
C10_WellFormedPreserved == WellFormed(Final, store.options)

C10_Witness ==
    /\ Len(hist) = 2
    /\ ~hist[2].stale
    /\ Len(Final) = 2
    /\ hist[2].reported = Final

====
